---- MODULE Spec2Model ----
(***************************************************************************)
(* AFK Guardian (src/src/afk_guardian.py): the monitoring session of       *)
(* class AFKGuardian (input callbacks, webcam thread, AFK poll thread,     *)
(* stop) and the activity log's persistence and analytics.                 *)
(*                                                                         *)
(* Time is counted in whole seconds; a datetime is [s, us] (seconds since  *)
(* a Monday 00:00:00 and microseconds), a timedelta is [s, us] normalised  *)
(* with 0 <= us < 1000000 as Python normalises it.                         *)
(***************************************************************************)
EXTENDS Integers, Sequences, FiniteSets, TLC

VARIABLES
    now,                    \* the wall clock, time.time(), in seconds
    last_activity,          \* self.last_activity
    is_face_present,        \* self.is_face_present
    is_running,             \* self.is_running
    activity_log,           \* self.activity_log
    listeners,              \* the pynput listeners: none, running, failed, stopped
    cap,                    \* self.cap: none, opened, unopened, released
    disk,                   \* the log file: <<>> when absent, else <<its lines>>
    pcMain,                 \* the main thread: start(), its wait loop, stop()
    pcCam,                  \* the webcam thread, _monitor_webcam
    cam_event,              \* what the webcam thread's last iteration did
    pcPoll,                 \* the poll thread, _check_afk
    current_time,           \* _check_afk locals
    time_since_activity,
    face_read,              \* <<is_face_present as read at line 133>>, <<>> when not read
    current_status,
    last_status,
    last_notification_time,
    ticks,                  \* poll iterations completed
    alerted,                \* this iteration called _send_notification
    appended,               \* this iteration appended to activity_log
    failed,                 \* the exception last caught, until the statement after
                            \* its handler has run: none, notification (lines
                            \* 163-164), iteration (lines 149-150)
    period_alerts,          \* times of the alerts of the current run of afk ticks
    held,                   \* pairs <<last_activity, is_face_present>> held between the
                            \* reads of lines 130 and 133 of the current iteration
    saved_log,              \* <<the log the file on disk was written from>>, or <<>>
    outcome                 \* what the last save, load or analytics call did

vars == <<now, last_activity, is_face_present, is_running, activity_log,
          listeners, cap, disk, pcMain, pcCam, cam_event, pcPoll, current_time,
          time_since_activity, face_read, current_status, last_status,
          last_notification_time, ticks, alerted, appended, failed,
          period_alerts, held, saved_log, outcome>>

sessionVars == <<now, last_activity, is_face_present, is_running, listeners,
                 cap, pcMain, pcCam, cam_event, pcPoll, current_time,
                 time_since_activity, face_read, current_status, last_status,
                 last_notification_time, ticks, alerted, appended, failed,
                 period_alerts, held>>

mainVars == <<listeners, cap, pcMain>>
camVars == <<pcCam, cam_event>>
pollLocals == <<current_time, time_since_activity, face_read, current_status,
                last_status, last_notification_time, alerted, appended,
                period_alerts>>

----------------------------------------------------------------------------
(* Program constants and bounds *)

AfkThreshold == 10

AlertCooldown == 300

MaxTicks == 4

StartTime == 1000

MaxLogLen == 3

\* how long one pass of the poll loop's time.sleep(1) can be seen to last
SleepSteps == {1, AfkThreshold, AlertCooldown}

\* the sub-second part datetime.now() can return
Micros == {0, 500000}

----------------------------------------------------------------------------
(* datetime and timedelta *)

Statuses == {"active", "afk"}

Datetime(sec, micro) == [s |-> sec, us |-> micro]

\* datetime - datetime, lines 197, 381, 421, 479: a timedelta, normalised
TimeDelta(a, b) ==
    IF a.us >= b.us
    THEN [s |-> a.s - b.s, us |-> a.us - b.us]
    ELSE [s |-> a.s - b.s - 1, us |-> a.us + 1000000 - b.us]

\* timedelta + timedelta, lines 200, 202
TdAdd(x, y) ==
    IF x.us + y.us >= 1000000
    THEN [s |-> x.s + y.s + 1, us |-> x.us + y.us - 1000000]
    ELSE [s |-> x.s + y.s, us |-> x.us + y.us]

\* timedelta(), lines 190, 191
TdZero == [s |-> 0, us |-> 0]

\* the sign of timedelta.total_seconds()
TdPositive(x) == x.s > 0 \/ (x.s = 0 /\ x.us > 0)

Hour(ts) == (ts.s \div 3600) % 24

Weekday(ts) == (ts.s \div 86400) % 7

Date(ts) == ts.s \div 86400

----------------------------------------------------------------------------
(* The log file: a sequence of lines, each line the sequence of its        *)
(* comma-separated fields, each field a text.                              *)

\* a text that is a plain word
Word(w) == [w |-> w, dt |-> <<>>, frac |-> <<>>]

\* a text of the shape "D HH:MM:SS" with the digits after a "." (<<>>: no ".")
DatetimeText(d, h, m, sec, frac) == [w |-> "", dt |-> <<d, h, m, sec>>, frac |-> frac]

HeaderLine == <<Word("timestamp"), Word("status")>>

\* the six digits of %06d
MicroDigits(us) == [i \in 1..6 |-> (us \div (10 ^ (6 - i))) % 10]

\* str(datetime), line 175: isoformat(sep=' '), which leaves out the
\* fraction when microsecond is 0
FormatDatetime(ts) ==
    DatetimeText(ts.s \div 86400, (ts.s \div 3600) % 24, (ts.s \div 60) % 60,
                 ts.s % 60, IF ts.us = 0 THEN <<>> ELSE MicroDigits(ts.us))

\* whether strptime(text, '%Y-%m-%d %H:%M:%S.%f') accepts the text, line 252
Parses(t) ==
    /\ Len(t.dt) = 4
    /\ t.dt[2] \in 0..23 /\ t.dt[3] \in 0..59 /\ t.dt[4] \in 0..59
    /\ Len(t.frac) \in 1..6

RECURSIVE FracValue(_, _)
\* %f: one to six digits, padded with zeros on the right
FracValue(frac, i) ==
    IF i > Len(frac) THEN 0
    ELSE frac[i] * (10 ^ (6 - i)) + FracValue(frac, i + 1)

\* strptime on an accepted text, line 252
ParseDatetime(t) ==
    Datetime(t.dt[1] * 86400 + t.dt[2] * 3600 + t.dt[3] * 60 + t.dt[4],
             FracValue(t.frac, 1))

\* one record of the file, line 175
FormatEntry(e) == <<FormatDatetime(e.timestamp), Word(e.status)>>

\* the file _save_activity_log writes, lines 172-175
SavedFile(log) == <<HeaderLine>> \o [i \in 1..Len(log) |-> FormatEntry(log[i])]

RECURSIVE LoadLines(_, _, _)
\* the loop of _load_activity_log, lines 250-257: a line that does not split
\* in two, or whose first field strptime refuses, raises ValueError and
\* leaves the entries appended so far
LoadLines(file, i, acc) ==
    IF i > Len(file) THEN [log |-> acc, err |-> "none"]
    ELSE IF Len(file[i]) # 2 THEN [log |-> acc, err |-> "ValueError"]
    ELSE IF ~Parses(file[i][1]) THEN [log |-> acc, err |-> "ValueError"]
    ELSE LoadLines(file, i + 1,
                   Append(acc, [timestamp |-> ParseDatetime(file[i][1]),
                                status |-> file[i][2].w]))

\* _load_activity_log, lines 242-257: the log is emptied, the first line
\* is skipped whatever it holds (StopIteration when there is none)
LoadActivityLog(file) ==
    IF Len(file) = 0 THEN [log |-> <<>>, err |-> "StopIteration"]
    ELSE LoadLines(file, 2, <<>>)

----------------------------------------------------------------------------
(* The monitoring session *)

\* the process lives: the threads of start() are daemon threads
Alive == pcMain \in {"running", "stop_listeners", "release", "save", "saved"}

Init ==
    /\ now = StartTime
    /\ last_activity = StartTime
    /\ is_face_present = FALSE
    /\ is_running = FALSE
    /\ activity_log = <<>>
    /\ listeners = "none"
    /\ cap = "none"
    /\ disk = <<>>
    /\ pcMain = "new"
    /\ pcCam = "unstarted"
    /\ cam_event = "none"
    /\ pcPoll = "unstarted"
    /\ current_time = 0
    /\ time_since_activity = 0
    /\ face_read = <<>>
    /\ current_status = "active"
    /\ last_status = "active"
    /\ last_notification_time = 0
    /\ ticks = 0
    /\ alerted = FALSE
    /\ appended = FALSE
    /\ failed = "none"
    /\ period_alerts = <<>>
    /\ held = {}
    /\ saved_log = <<>>
    /\ outcome = [op |-> "none", result |-> "none", err |-> "none", data |-> <<>>]

\* start(), lines 32-56: the listeners start or fail to, the two threads start
Start(listenersOk) ==
    /\ pcMain = "new"
    /\ is_running' = TRUE
    /\ listeners' = IF listenersOk THEN "running" ELSE "failed"
    /\ pcCam' = "open"
    /\ pcPoll' = "loop"
    /\ pcMain' = "running"
    /\ UNCHANGED <<now, last_activity, is_face_present, activity_log, cap, disk,
                   cam_event, pollLocals, ticks, held, saved_log, failed, outcome>>

\* _on_activity, lines 79-81
OnActivity ==
    /\ Alive
    /\ listeners = "running"
    /\ last_activity' = now
    /\ held' = IF pcPoll = "read_face" THEN held \cup {<<now, is_face_present>>} ELSE held
    /\ UNCHANGED <<now, is_face_present, is_running, activity_log, mainVars, disk,
                   camVars, pcPoll, pollLocals, ticks, saved_log, failed, outcome>>

\* _monitor_webcam, lines 86-90: the camera opens, or the thread returns
CamOpen(opened) ==
    /\ Alive
    /\ pcCam = "open"
    /\ cap' = IF opened THEN "opened" ELSE "unopened"
    /\ pcCam' = IF opened THEN "loop" ELSE "done"
    /\ cam_event' = IF opened THEN "opened" ELSE "open_failed"
    /\ UNCHANGED <<now, last_activity, is_face_present, is_running, activity_log,
                   listeners, pcMain, disk, pcPoll, pollLocals, ticks, held, saved_log, failed, outcome>>

\* lines 92-117, one iteration with a frame: is_face_present is set, and the
\* quit key ends the session
CamSample(present, quit) ==
    /\ Alive
    /\ pcCam = "loop"
    /\ is_running
    /\ cap = "opened"
    /\ is_face_present' = present
    /\ held' = IF pcPoll = "read_face" THEN held \cup {<<last_activity, present>>} ELSE held
    /\ is_running' = IF quit THEN FALSE ELSE is_running
    /\ pcCam' = IF quit THEN "done" ELSE "loop"
    /\ cam_event' = IF quit THEN "quit" ELSE "sampled"
    /\ UNCHANGED <<now, last_activity, activity_log, mainVars, disk, pcPoll,
                   pollLocals, ticks, saved_log, failed, outcome>>

\* lines 93-97: no frame, the flag keeps its value
CamGrabFail ==
    /\ Alive
    /\ pcCam = "loop"
    /\ is_running
    /\ cap = "opened"
    /\ cam_event' = "grab_failed"
    /\ UNCHANGED <<now, last_activity, is_face_present, is_running, activity_log,
                   mainVars, disk, pcCam, pcPoll, pollLocals, ticks, held, saved_log, failed, outcome>>

\* lines 118-120: an exception (a released camera included) ends the thread
CamException ==
    /\ Alive
    /\ pcCam = "loop"
    /\ is_running
    /\ is_face_present' = FALSE
    /\ held' = IF pcPoll = "read_face" THEN held \cup {<<last_activity, FALSE>>} ELSE held
    /\ pcCam' = "done"
    /\ cam_event' = "exception"
    /\ UNCHANGED <<now, last_activity, is_running, activity_log, mainVars, disk,
                   pcPoll, pollLocals, ticks, saved_log, failed, outcome>>

\* line 92: the loop ends when is_running is false
CamExit ==
    /\ Alive
    /\ pcCam = "loop"
    /\ ~is_running
    /\ pcCam' = "done"
    /\ cam_event' = "exited"
    /\ UNCHANGED <<now, last_activity, is_face_present, is_running, activity_log,
                   mainVars, disk, pcPoll, pollLocals, ticks, held, saved_log, failed, outcome>>

\* the comparison with >= in place of >
ExceedsThreshold_AtLeast(idle) == idle >= AfkThreshold

\* line 133, first operand: time_since_activity > self.afk_threshold
ExceedsThreshold(idle) == idle > AfkThreshold

\* the status without the face test
StatusFor_IgnoresFace(idle, facePresent) ==
    IF idle > AfkThreshold THEN "afk" ELSE "active"

\* lines 133-140: the status of this iteration
StatusFor(idle, facePresent) ==
    IF ExceedsThreshold(idle) /\ ~facePresent THEN "afk" ELSE "active"

\* a notification at every afk iteration
ShouldNotify_EveryTick(lastStatus, currentTime, lastNotificationTime) == TRUE

\* the cooldown compared with >= in place of >
ShouldNotify_AtLeast(lastStatus, currentTime, lastNotificationTime) ==
    \/ lastStatus = "active"
    \/ currentTime - lastNotificationTime >= AlertCooldown

\* line 136: whether an afk iteration notifies
ShouldNotify(lastStatus, currentTime, lastNotificationTime) ==
    \/ lastStatus = "active"
    \/ currentTime - lastNotificationTime > AlertCooldown

\* lines 127-129: the loop test and current_time = time.time()
PollBegin ==
    /\ Alive
    /\ pcPoll = "loop"
    /\ IF is_running
       THEN /\ current_time' = now
            /\ pcPoll' = "read_activity"
       ELSE /\ pcPoll' = "done"
            /\ UNCHANGED current_time
    /\ face_read' = <<>>
    /\ alerted' = FALSE
    /\ appended' = FALSE
    /\ UNCHANGED <<now, last_activity, is_face_present, is_running, activity_log,
                   mainVars, disk, camVars, time_since_activity, current_status,
                   last_status, last_notification_time, ticks, period_alerts,
                   held, saved_log, failed, outcome>>

\* line 130, and line 133 when its first operand is false: is_face_present
\* is then not read and the status is active
PollReadActivity ==
    /\ Alive
    /\ pcPoll = "read_activity"
    /\ time_since_activity' = current_time - last_activity
    /\ held' = {<<last_activity, is_face_present>>}
    /\ failed' = "none"
    /\ IF ExceedsThreshold(current_time - last_activity)
       THEN /\ pcPoll' = "read_face"
            /\ UNCHANGED <<current_status, period_alerts>>
       ELSE /\ pcPoll' = "log"
            /\ current_status' = "active"
            /\ period_alerts' = <<>>
    /\ UNCHANGED <<now, last_activity, is_face_present, is_running, activity_log,
                   mainVars, disk, camVars, current_time, face_read, last_status,
                   last_notification_time, ticks, alerted, appended, saved_log, outcome>>

\* lines 133-140 once the idle time exceeds the threshold: is_face_present
\* is read, the status decided, the notification sent; an exception of
\* notification.notify is caught and printed inside _send_notification
\* (lines 163-164), which returns, and line 138 runs all the same
PollReadFace(notified) ==
    /\ Alive
    /\ pcPoll = "read_face"
    /\ face_read' = <<is_face_present>>
    /\ current_status' = StatusFor(time_since_activity, is_face_present)
    /\ IF StatusFor(time_since_activity, is_face_present) = "afk"
       THEN IF ShouldNotify(last_status, current_time, last_notification_time)
            THEN /\ alerted' = TRUE
                 /\ failed' = IF notified THEN "none" ELSE "notification"
                 /\ last_notification_time' = current_time
                 /\ period_alerts' = Append(period_alerts, current_time)
            ELSE /\ notified
                 /\ UNCHANGED <<alerted, failed, last_notification_time, period_alerts>>
       ELSE /\ notified
            /\ period_alerts' = <<>>
            /\ UNCHANGED <<alerted, failed, last_notification_time>>
    /\ pcPoll' = "log"
    /\ UNCHANGED <<now, last_activity, is_face_present, is_running, activity_log,
                   mainVars, disk, camVars, current_time, time_since_activity,
                   last_status, ticks, appended, held, saved_log, outcome>>

\* the time of the last input in place of the clock
LogTimestamp_OfActivity(micro) == Datetime(last_activity, micro)

\* line 145: datetime.now()
LogTimestamp(micro) == Datetime(now, micro)

\* an entry at every iteration, changed status or not
PollLog_EveryTick(micro) ==
    /\ Alive
    /\ pcPoll = "log"
    /\ activity_log' = Append(activity_log,
            [timestamp |-> LogTimestamp(micro), status |-> current_status])
    /\ last_status' = current_status
    /\ appended' = TRUE
    /\ ticks' = ticks + 1
    /\ held' = {}
    /\ failed' = "none"
    /\ pcPoll' = "sleep"
    /\ UNCHANGED <<now, last_activity, is_face_present, is_running, mainVars, disk,
                   camVars, current_time, time_since_activity, face_read,
                   current_status, last_notification_time, alerted, period_alerts,
                   saved_log, outcome>>

\* lines 143-148: a status change is appended with datetime.now()
PollLog(micro) ==
    /\ Alive
    /\ pcPoll = "log"
    /\ IF current_status # last_status
       THEN /\ activity_log' = Append(activity_log,
                    [timestamp |-> LogTimestamp(micro), status |-> current_status])
            /\ last_status' = current_status
            /\ appended' = TRUE
       ELSE UNCHANGED <<activity_log, last_status, appended>>
    /\ ticks' = ticks + 1
    /\ held' = {}
    /\ failed' = "none"
    /\ pcPoll' = "sleep"
    /\ UNCHANGED <<now, last_activity, is_face_present, is_running, mainVars, disk,
                   camVars, current_time, time_since_activity, face_read,
                   current_status, last_notification_time, alerted, period_alerts,
                   saved_log, outcome>>

\* line 152: time.sleep(1), during which the clock advances
PollSleep(d) ==
    /\ Alive
    /\ pcPoll = "sleep"
    /\ ticks < MaxTicks
    /\ now' = now + d
    /\ pcPoll' = "loop"
    /\ UNCHANGED <<last_activity, is_face_present, is_running, activity_log,
                   mainVars, disk, camVars, pollLocals, ticks, held, saved_log, failed, outcome>>

\* lines 133-137 and 149: the call of line 137 raises (the handler of
\* _send_notification can itself raise, at its print, line 164); line 138
\* and the rest of the try do not run
PollFail ==
    /\ Alive
    /\ pcPoll = "read_face"
    /\ StatusFor(time_since_activity, is_face_present) = "afk"
    /\ ShouldNotify(last_status, current_time, last_notification_time)
    /\ face_read' = <<is_face_present>>
    /\ current_status' = "afk"
    /\ failed' = "iteration"
    /\ ticks' = ticks + 1
    /\ held' = {}
    /\ pcPoll' = "except"
    /\ UNCHANGED <<now, last_activity, is_face_present, is_running, activity_log,
                   mainVars, disk, camVars, current_time, time_since_activity,
                   last_status, last_notification_time, alerted, appended,
                   period_alerts, saved_log, outcome>>

\* the exception ends the thread, as it does without the try
PollExcept_EndsLoop(d) ==
    /\ Alive
    /\ pcPoll = "except"
    /\ ticks < MaxTicks
    /\ now' = now + d
    /\ pcPoll' = "done"
    /\ UNCHANGED <<last_activity, is_face_present, is_running, activity_log,
                   mainVars, disk, camVars, pollLocals, ticks, held, saved_log,
                   failed, outcome>>

\* lines 149-152: the handler prints the exception, then time.sleep(1)
PollExcept(d) ==
    /\ Alive
    /\ pcPoll = "except"
    /\ ticks < MaxTicks
    /\ now' = now + d
    /\ pcPoll' = "loop"
    /\ UNCHANGED <<last_activity, is_face_present, is_running, activity_log,
                   mainVars, disk, camVars, pollLocals, ticks, held, saved_log,
                   failed, outcome>>

\* line 65-66 and line 70: KeyboardInterrupt in the wait loop, stop() begins
Interrupt ==
    /\ pcMain = "running"
    /\ is_running' = FALSE
    /\ pcMain' = "stop_listeners"
    /\ UNCHANGED <<now, last_activity, is_face_present, activity_log, listeners,
                   cap, disk, camVars, pcPoll, pollLocals, ticks, held, saved_log, failed, outcome>>

\* line 63: the wait loop ends when is_running is false; start() returns
MainExit ==
    /\ pcMain = "running"
    /\ ~is_running
    /\ pcMain' = "exited"
    /\ UNCHANGED <<now, last_activity, is_face_present, is_running, activity_log,
                   listeners, cap, disk, camVars, pcPoll, pollLocals, ticks, held,
                   saved_log, failed, outcome>>

\* lines 71-72: the listeners are stopped; the attributes do not exist when
\* the listeners failed to start (AttributeError)
StopListeners ==
    /\ pcMain = "stop_listeners"
    /\ IF listeners = "failed"
       THEN /\ pcMain' = "crashed"
            /\ UNCHANGED listeners
       ELSE /\ listeners' = "stopped"
            /\ pcMain' = "release"
    /\ UNCHANGED <<now, last_activity, is_face_present, is_running, activity_log,
                   cap, disk, camVars, pcPoll, pollLocals, ticks, held, saved_log, failed, outcome>>

\* lines 73-75
StopRelease ==
    /\ pcMain = "release"
    /\ cap' = IF cap = "none" THEN "none" ELSE "released"
    /\ pcMain' = "save"
    /\ UNCHANGED <<now, last_activity, is_face_present, is_running, activity_log,
                   listeners, disk, camVars, pcPoll, pollLocals, ticks, held, saved_log, failed, outcome>>

\* line 76 and _save_activity_log, lines 166-177
StopSave ==
    /\ pcMain = "save"
    /\ disk' = IF activity_log = <<>> THEN disk ELSE <<SavedFile(activity_log)>>
    /\ saved_log' = IF activity_log = <<>> THEN saved_log ELSE <<activity_log>>
    /\ pcMain' = "saved"
    /\ UNCHANGED <<now, last_activity, is_face_present, is_running, activity_log,
                   listeners, cap, camVars, pcPoll, pollLocals, ticks, held, failed, outcome>>

\* line 77 and the return of stop() and of start(): the process ends, and
\* the daemon threads with it
StopReturn ==
    /\ pcMain = "saved"
    /\ pcMain' = "stopped"
    /\ UNCHANGED <<now, last_activity, is_face_present, is_running, activity_log,
                   listeners, cap, disk, camVars, pcPoll, pollLocals, ticks, held,
                   saved_log, failed, outcome>>

Next ==
    \/ \E ok \in BOOLEAN : Start(ok)
    \/ OnActivity
    \/ \E opened \in BOOLEAN : CamOpen(opened)
    \/ \E present \in BOOLEAN, quit \in BOOLEAN : CamSample(present, quit)
    \/ CamGrabFail
    \/ CamException
    \/ CamExit
    \/ PollBegin
    \/ PollReadActivity
    \/ \E notified \in BOOLEAN : PollReadFace(notified)
    \/ PollFail
    \/ \E d \in SleepSteps : PollExcept(d)
    \/ \E micro \in Micros : PollLog(micro)
    \/ \E d \in SleepSteps : PollSleep(d)
    \/ Interrupt
    \/ MainExit
    \/ StopListeners
    \/ StopRelease
    \/ StopSave
    \/ StopReturn

Spec == Init /\ [][Next]_vars

----------------------------------------------------------------------------
(* Analytics over self.activity_log *)

\* the interval keyed by the entry that ends it
ReportKey_OfEnd(prev, curr) == IF curr.status = "active" THEN "active" ELSE "afk"

\* line 199: the total an interval goes to
ReportKey(prev, curr) == IF prev.status = "active" THEN "active" ELSE "afk"

RECURSIVE ReportLoop(_, _, _, _)
\* generate_report, lines 193-202
ReportLoop(log, i, active_duration, afk_duration) ==
    IF i > Len(log) THEN [active |-> active_duration, afk |-> afk_duration]
    ELSE LET duration == TimeDelta(log[i].timestamp, log[i - 1].timestamp)
         IN  IF ReportKey(log[i - 1], log[i]) = "active"
             THEN ReportLoop(log, i + 1, TdAdd(active_duration, duration), afk_duration)
             ELSE ReportLoop(log, i + 1, active_duration, TdAdd(afk_duration, duration))

\* line 233: active_percentage, the exact ratio <<active, total>> (times
\* 100), or <<>> for the literal 0 of the else branch
ActivePercentage(active_duration, total_time) ==
    IF TdPositive(total_time) THEN <<active_duration, total_time>> ELSE <<>>

\* generate_report, lines 185-240, on the log in memory
Report(log) ==
    IF log = <<>> THEN [result |-> "no_data", data |-> <<>>]
    ELSE LET sums == ReportLoop(log, 2, TdZero, TdZero)
             total_time == TdAdd(sums.active, sums.afk)
         IN  [result |-> "done",
              data |-> [active |-> sums.active, afk |-> sums.afk,
                        total |-> total_time,
                        pct |-> ActivePercentage(sums.active, total_time)]]

Cells == (0..23) \X (0..6)

\* the cell of the entry that ends the interval
HeatmapCell_OfEnd(prev, curr) == <<Hour(curr.timestamp), Weekday(curr.timestamp)>>

\* lines 379-380: the cell an active interval goes to
HeatmapCell(prev, curr) == <<Hour(prev.timestamp), Weekday(prev.timestamp)>>

RECURSIVE HeatmapLoop(_, _, _)
\* generate_heatmap, lines 374-382 (the matrix holds durations; the code
\* holds them in hours)
HeatmapLoop(log, i, activity_matrix) ==
    IF i > Len(log) THEN activity_matrix
    ELSE IF log[i - 1].status = "active"
         THEN LET cell == HeatmapCell(log[i - 1], log[i])
                  duration == TimeDelta(log[i].timestamp, log[i - 1].timestamp)
              IN  HeatmapLoop(log, i + 1,
                      [activity_matrix EXCEPT ![cell] = TdAdd(@, duration)])
         ELSE HeatmapLoop(log, i + 1, activity_matrix)

\* generate_heatmap, lines 367-402
Heatmap(log) ==
    IF log = <<>> THEN [result |-> "no_data", data |-> <<>>]
    ELSE [result |-> "done",
          data |-> HeatmapLoop(log, 2, [c \in Cells |-> TdZero])]

\* every afk entry restarts the break
BreakStart_Restarts(current_break_start, entry) == <<entry.timestamp>>

\* lines 418-419: current_break_start (<<>> is None) at an afk entry
BreakStart(current_break_start, entry) ==
    IF current_break_start = <<>> THEN <<entry.timestamp>> ELSE current_break_start

RECURSIVE BreaksLoop(_, _, _, _)
\* analyze_breaks, lines 416-423 (durations; the code holds them in minutes)
BreaksLoop(log, i, breaks, current_break_start) ==
    IF i > Len(log) THEN breaks
    ELSE IF log[i].status = "afk"
         THEN BreaksLoop(log, i + 1, breaks, BreakStart(current_break_start, log[i]))
         ELSE IF current_break_start # <<>>
              THEN BreaksLoop(log, i + 1,
                       Append(breaks, TimeDelta(log[i].timestamp, current_break_start[1])),
                       <<>>)
              ELSE BreaksLoop(log, i + 1, breaks, current_break_start)

\* analyze_breaks, lines 409-460
Breaks(log) ==
    IF log = <<>> THEN [result |-> "no_data", data |-> <<>>]
    ELSE LET breaks == BreaksLoop(log, 1, <<>>, <<>>)
         IN  IF breaks = <<>> THEN [result |-> "no_breaks", data |-> <<>>]
             ELSE [result |-> "done", data |-> breaks]

\* the date of the entry that ends the interval
DailyKey_OfEnd(prev, curr) == Date(curr.timestamp)

\* line 478: the date an interval goes to
DailyKey(prev, curr) == Date(prev.timestamp)

RECURSIVE DailyLoop(_, _, _)
\* calculate_productivity_score, lines 474-486: daily_scores, a dict
\* from the date to the active and total durations
DailyLoop(log, i, daily_scores) ==
    IF i > Len(log) THEN daily_scores
    ELSE LET date == DailyKey(log[i - 1], log[i])
             duration == TimeDelta(log[i].timestamp, log[i - 1].timestamp)
             had == IF date \in DOMAIN daily_scores THEN daily_scores[date]
                    ELSE [active |-> TdZero, total |-> TdZero]
             has == [active |-> IF log[i - 1].status = "active"
                                THEN TdAdd(had.active, duration) ELSE had.active,
                     total |-> TdAdd(had.total, duration)]
         IN  DailyLoop(log, i + 1,
                 [d \in DOMAIN daily_scores \cup {date} |->
                     IF d = date THEN has ELSE daily_scores[d]])

RECURSIVE SortedDates(_)
\* sorted(daily_scores.items()), line 492: the dates in ascending order
SortedDates(dates) ==
    IF dates = {} THEN <<>>
    ELSE LET first == CHOOSE d \in dates : \A e \in dates : d <= e
         IN  <<first>> \o SortedDates(dates \ {first})

\* lines 492-496: the dates with a positive total and their scores (the
\* exact ratio <<active, total>>, times 100)
Productivity(log) ==
    IF log = <<>> THEN [result |-> "no_data", data |-> <<>>]
    ELSE LET daily_scores == DailyLoop(log, 2, <<>>)
             dates == SortedDates({d \in DOMAIN daily_scores :
                                      TdPositive(daily_scores[d].total)})
         IN  [result |-> "done",
              data |-> [dates |-> dates,
                        scores |-> [k \in 1..Len(dates) |->
                            <<daily_scores[dates[k]].active,
                              daily_scores[dates[k]].total>>]]]

----------------------------------------------------------------------------
(* Save, load and analytics calls on an object that holds a log *)

\* Monday 00:00:00, Monday 00:01:40.5, Monday 01:01:40, Tuesday 01:00:00.5,
\* Tuesday 02:01:40
LogTimes == {Datetime(0, 0), Datetime(100, 500000), Datetime(3700, 0),
             Datetime(90000, 500000), Datetime(93700, 0)}

Entries == [timestamp : LogTimes, status : Statuses]

Logs == UNION {[1..n -> Entries] : n \in 0..MaxLogLen}

\* log files that did not come from _save_activity_log
NoHeaderFile ==
    <<FormatEntry([timestamp |-> Datetime(100, 500000), status |-> "active"]),
      FormatEntry([timestamp |-> Datetime(90000, 500000), status |-> "afk"])>>

ThreeFieldFile ==
    <<HeaderLine,
      FormatEntry([timestamp |-> Datetime(100, 500000), status |-> "active"]),
      <<FormatDatetime(Datetime(90000, 500000)), Word("afk"), Word("extra")>>>>

BadTimestampFile ==
    <<HeaderLine,
      FormatEntry([timestamp |-> Datetime(100, 500000), status |-> "active"]),
      <<Word("yesterday"), Word("afk")>>>>

EmptyFile == <<>>

ForeignFiles == {NoHeaderFile, ThreeFieldFile, BadTimestampFile, EmptyFile}

\* an object that holds a log, as a session or a load left it, and no file
InitLog ==
    /\ now = StartTime
    /\ last_activity = StartTime
    /\ is_face_present = FALSE
    /\ is_running = FALSE
    /\ activity_log \in Logs
    /\ listeners = "none"
    /\ cap = "none"
    /\ disk = <<>>
    /\ pcMain = "new"
    /\ pcCam = "unstarted"
    /\ cam_event = "none"
    /\ pcPoll = "unstarted"
    /\ current_time = 0
    /\ time_since_activity = 0
    /\ face_read = <<>>
    /\ current_status = "active"
    /\ last_status = "active"
    /\ last_notification_time = 0
    /\ ticks = 0
    /\ alerted = FALSE
    /\ appended = FALSE
    /\ failed = "none"
    /\ period_alerts = <<>>
    /\ held = {}
    /\ saved_log = <<>>
    /\ outcome = [op |-> "none", result |-> "none", err |-> "none", data |-> <<>>]

\* a log file handed to a new process (run_afk_guardian.py, lines 19-28)
ForeignFile(file) ==
    /\ disk = <<>>
    /\ activity_log = <<>>
    /\ outcome.op = "none"
    /\ disk' = <<file>>
    /\ outcome' = [op |-> "file", result |-> "done", err |-> "none", data |-> <<>>]
    /\ UNCHANGED <<activity_log, saved_log, sessionVars>>

\* _save_activity_log, lines 166-177
SaveActivityLog ==
    /\ pcMain = "new"
    /\ IF activity_log = <<>>
       THEN /\ outcome' = [op |-> "save", result |-> "skipped", err |-> "none",
                           data |-> <<>>]
            /\ UNCHANGED <<disk, saved_log>>
       ELSE /\ disk' = <<SavedFile(activity_log)>>
            /\ saved_log' = <<activity_log>>
            /\ outcome' = [op |-> "save", result |-> "done", err |-> "none",
                           data |-> <<>>]
    /\ UNCHANGED <<activity_log, sessionVars>>

\* what self._load_activity_log(log_file) leaves and raises, lines 242-257;
\* open() raises when there is no file, after the log was emptied
LoadFrom(d) ==
    IF d = <<>> THEN [log |-> <<>>, err |-> "FileNotFoundError"]
    ELSE LoadActivityLog(d[1])

\* lines 181-183, 364-365, 406-407, 464-465: if log_file: load it
InputLog(useFile) ==
    IF useFile THEN LoadFrom(disk) ELSE [log |-> activity_log, err |-> "none"]

\* a call on an object that runs no session (run_afk_guardian.py, lines
\* 21-28): the load when a file is given, whose exception ends the call,
\* then the function on the log in memory
Call(name, useFile, result) ==
    /\ activity_log' = InputLog(useFile).log
    /\ outcome' = IF InputLog(useFile).err # "none"
                  THEN [op |-> name, result |-> "error",
                        err |-> InputLog(useFile).err, data |-> <<>>]
                  ELSE [op |-> name, result |-> result.result, err |-> "none",
                        data |-> result.data]
    /\ UNCHANGED <<disk, saved_log, sessionVars>>

\* _load_activity_log(log_file), lines 242-257
Load ==
    /\ pcMain = "new"
    /\ Call("load", TRUE, [result |-> "done", data |-> <<>>])

\* generate_report(log_file), lines 179-240
GenerateReport(useFile) ==
    /\ pcMain = "new"
    /\ Call("report", useFile, Report(InputLog(useFile).log))

\* generate_heatmap(log_file), lines 362-402
GenerateHeatmap(useFile) ==
    /\ pcMain = "new"
    /\ Call("heatmap", useFile, Heatmap(InputLog(useFile).log))

\* analyze_breaks(log_file), lines 404-460
AnalyzeBreaks(useFile) ==
    /\ pcMain = "new"
    /\ Call("breaks", useFile, Breaks(InputLog(useFile).log))

\* calculate_productivity_score(log_file), lines 462-517
CalculateProductivityScore(useFile) ==
    /\ pcMain = "new"
    /\ Call("productivity", useFile, Productivity(InputLog(useFile).log))

NextLog ==
    \/ \E file \in ForeignFiles : ForeignFile(file)
    \/ SaveActivityLog
    \/ Load
    \/ \E useFile \in BOOLEAN : GenerateReport(useFile)
    \/ \E useFile \in BOOLEAN : GenerateHeatmap(useFile)
    \/ \E useFile \in BOOLEAN : AnalyzeBreaks(useFile)
    \/ \E useFile \in BOOLEAN : CalculateProductivityScore(useFile)

SpecLog == InitLog /\ [][NextLog]_vars

----------------------------------------------------------------------------
(* Properties of the poll iteration, under Spec *)

\* the iteration has decided its status and has not slept yet
Decided == pcPoll \in {"log", "sleep"}

\* the value of last_activity the iteration read at line 130
ReadLastActivity == current_time - time_since_activity

\* C1: an iteration that reads is_face_present as true decides "active",
\* whatever the idle time: it sends no notification and appends no "afk"
\* entry.
C1_FaceOverridesIdle ==
    (Decided /\ face_read = <<TRUE>>) =>
        /\ current_status = "active"
        /\ ~alerted
        /\ appended => activity_log[Len(activity_log)].status = "active"

\* a face is read at an iteration idle for longer than the alert cooldown
C1_Witness ==
    /\ pcPoll = "sleep"
    /\ face_read = <<TRUE>>
    /\ time_since_activity > AlertCooldown

\* C2: an iteration that does not read a face decides "afk" exactly when
\* the idle time, current_time minus the last_activity it read, is greater
\* than the threshold; at or below the threshold it decides "active".
C2_AwayIffIdleExceeds ==
    (Decided /\ face_read # <<TRUE>>) =>
        /\ time_since_activity > AfkThreshold => current_status = "afk"
        /\ time_since_activity <= AfkThreshold => current_status = "active"
        /\ face_read = <<>> => time_since_activity <= AfkThreshold

\* no face and an idle time exactly at the threshold: still active
C2_Witness ==
    /\ pcPoll = "sleep"
    /\ face_read = <<>>
    /\ ~is_face_present
    /\ time_since_activity = AfkThreshold
    /\ current_status = "active"

\* C3: in one unbroken run of afk iterations any two notifications are
\* more than AlertCooldown seconds apart.
C3_AlertSpacing ==
    \A i, j \in 1..Len(period_alerts) :
        i < j => period_alerts[j] - period_alerts[i] > AlertCooldown

\* a second notification in the same run of afk iterations
C3_Witness ==
    /\ Len(period_alerts) >= 2
    /\ alerted
    /\ last_status = "afk"

\* C4: the pair (last_activity, is_face_present) an iteration decides on
\* was held by the object at one instant between its two reads.
C4_NoTornPair ==
    (pcPoll = "log" /\ face_read # <<>>) =>
        <<ReadLastActivity, face_read[1]>> \in held

----------------------------------------------------------------------------
(* Properties of save, load and the analytics, under SpecLog *)

\* the intervals that start at an active entry, and at an afk entry
ActiveFrom(log) == {i \in 1..(Len(log) - 1) : log[i].status = "active"}

AwayFrom(log) == {i \in 1..(Len(log) - 1) : log[i].status = "afk"}

RECURSIVE SumIntervals(_, _)
\* the sum of log[i+1].timestamp - log[i].timestamp over i in I
SumIntervals(log, I) ==
    IF I = {} THEN TdZero
    ELSE LET i == CHOOSE x \in I : TRUE
         IN  TdAdd(TimeDelta(log[i + 1].timestamp, log[i].timestamp),
                   SumIntervals(log, I \ {i}))

RECURSIVE Ascending(_)
Ascending(S) ==
    IF S = {} THEN <<>>
    ELSE LET least == CHOOSE x \in S : \A y \in S : x <= y
         IN  <<least>> \o Ascending(S \ {least})

\* C5: a non-empty log saved by _save_activity_log and loaded from the
\* written file by _load_activity_log comes back as the same entries in
\* the same order, timestamps with a zero microsecond included.
C5_RoundTrip ==
    (outcome.op = "load" /\ saved_log # <<>>) =>
        /\ outcome.result = "done"
        /\ activity_log = saved_log[1]

\* C6: loading a file whose first line is not the header fails and yields
\* no entries.
C6_MissingHeaderFails ==
    (/\ outcome.op = "load"
     /\ disk # <<>>
     /\ Len(disk[1]) > 0
     /\ disk[1][1] # HeaderLine) =>
        /\ outcome.result = "error"
        /\ activity_log = <<>>

\* C7: on a log of 0 or 1 entries each of the four analytics functions
\* reports that there is no data and computes no aggregate ("no breaks"
\* is taken as such a report for the break analysis).
C7_NoDataBelowTwo ==
    (/\ outcome.op \in {"report", "heatmap", "breaks", "productivity"}
     /\ outcome.result # "error"
     /\ Len(activity_log) <= 1) =>
        \/ outcome.result = "no_data"
        \/ outcome.op = "breaks" /\ outcome.result = "no_breaks"

\* the percentage is the number 0
PctIsZero(pct) == pct = <<>> \/ pct[1] = TdZero

\* the percentage is active / total * 100
PctIsRatio(pct, active, total) ==
    \/ pct = <<active, total>>
    \/ pct = <<>> /\ active = TdZero

\* the totals of the report are the sums over the intervals keyed by the
\* entry that starts them, and add up to last minus first timestamp
ReportTotalsRight ==
    LET log == activity_log
        d == outcome.data
    IN  /\ d.active = SumIntervals(log, ActiveFrom(log))
        /\ d.afk = SumIntervals(log, AwayFrom(log))
        /\ d.total = TdAdd(d.active, d.afk)
        /\ d.total = TimeDelta(log[Len(log)].timestamp, log[1].timestamp)

ReportedOnTwoOrMore ==
    /\ outcome.op = "report"
    /\ outcome.result = "done"
    /\ Len(activity_log) >= 2

ClosingIndices(log) ==
    {j \in 2..Len(log) : log[j].status # "afk" /\ log[j - 1].status = "afk"}

\* the first entry of the run of afk entries that ends before entry j
RunStart(log, j) ==
    CHOOSE i \in 1..(j - 1) :
        /\ \A k \in i..(j - 1) : log[k].status = "afk"
        /\ i = 1 \/ log[i - 1].status # "afk"

ExpectedBreaks(log) ==
    LET closing == Ascending(ClosingIndices(log))
    IN  [k \in 1..Len(closing) |->
            TimeDelta(log[closing[k]].timestamp,
                      log[RunStart(log, closing[k])].timestamp)]

\* C9: the break analysis yields, in order, one break for each run of afk
\* entries closed by a following active entry, lasting from the first afk
\* entry of the run to the closing entry; a run open at the end of the log
\* yields none.
C9_BreakAnalysis ==
    (outcome.op = "breaks" /\ outcome.result \in {"done", "no_breaks"}) =>
        /\ outcome.data = ExpectedBreaks(activity_log)
        /\ outcome.result = "no_breaks" <=> ClosingIndices(activity_log) = {}

\* a closed run of two afk entries, measured from the first
C9_Witness ==
    /\ outcome.op = "breaks"
    /\ outcome.result = "done"
    /\ \E j \in ClosingIndices(activity_log) : RunStart(activity_log, j) < j - 1

RECURSIVE SumCells(_, _)
SumCells(matrix, C) ==
    IF C = {} THEN TdZero
    ELSE LET c == CHOOSE x \in C : TRUE
         IN  TdAdd(matrix[c], SumCells(matrix, C \ {c}))

\* C10: every cell of the heatmap is the sum of the whole intervals that
\* start at an active entry in that hour and weekday, intervals that start
\* at an afk entry add nothing, and the cells add up to the active total.
C10_Heatmap ==
    (outcome.op = "heatmap" /\ outcome.result = "done") =>
        LET log == activity_log
            matrix == outcome.data
        IN  /\ \A c \in Cells :
                   matrix[c] = SumIntervals(log,
                       {i \in ActiveFrom(log) :
                           <<Hour(log[i].timestamp), Weekday(log[i].timestamp)>> = c})
            /\ SumCells(matrix, {c \in Cells : matrix[c] # TdZero})
                   = SumIntervals(log, ActiveFrom(log))

\* a heatmap of a log with an active interval that runs into the next day
C10_Witness ==
    /\ outcome.op = "heatmap"
    /\ outcome.result = "done"
    /\ \E i \in ActiveFrom(activity_log) :
           Date(activity_log[i + 1].timestamp) > Date(activity_log[i].timestamp)

\* the dates at which an interval of the log starts
StartDates(log) == {Date(log[i].timestamp) : i \in 1..(Len(log) - 1)}

\* the total, and the active part, of the intervals that start on a date
DateTotal(log, d) ==
    SumIntervals(log, {i \in 1..(Len(log) - 1) : Date(log[i].timestamp) = d})

DateActive(log, d) ==
    SumIntervals(log, {i \in ActiveFrom(log) : Date(log[i].timestamp) = d})

\* timedelta >= timedelta(0), and timedelta <= timedelta
TdNonNegative(x) == x.s >= 0

TdAtMost(x, y) == TdNonNegative(TimeDelta(y, x))

\* the score active / total * 100 lies between 0 and 100
ScoreInRange(score) ==
    /\ TdPositive(score[2])
    /\ TdNonNegative(score[1])
    /\ TdAtMost(score[1], score[2])

\* no entry of the log is earlier than the entry before it
TimeOrdered(log) ==
    \A i \in 1..(Len(log) - 1) :
        TdNonNegative(TimeDelta(log[i + 1].timestamp, log[i].timestamp))

ProductivityDone ==
    /\ outcome.op = "productivity"
    /\ outcome.result = "done"

\* the dates returned are dateSet in ascending order, each with the ratio
\* of its active to its total duration
ScoresOver(dateSet) ==
    LET log == activity_log
        d == outcome.data
    IN  /\ d.dates = Ascending(dateSet)
        /\ Len(d.scores) = Len(d.dates)
        /\ \A k \in 1..Len(d.dates) :
               d.scores[k] = <<DateActive(log, d.dates[k]), DateTotal(log, d.dates[k])>>

\* C11 as claimed: each interval goes to the date of its starting entry,
\* every date with a non-zero total is returned with active / total * 100,
\* dates ascending, and every score lies between 0 and 100.
C11_AsClaimed ==
    ProductivityDone =>
        /\ ScoresOver({d \in StartDates(activity_log) :
                          DateTotal(activity_log, d) # TdZero})
        /\ \A k \in 1..Len(outcome.data.scores) : ScoreInRange(outcome.data.scores[k])

\* C11, amended: each interval goes to the date of its starting entry,
\* every date with a positive total is returned with active / total * 100,
\* dates ascending; when no entry of the log is earlier than the entry
\* before it, every score lies between 0 and 100.
C11_ProductivityTrend ==
    ProductivityDone =>
        /\ ScoresOver({d \in StartDates(activity_log) :
                          TdPositive(DateTotal(activity_log, d))})
        /\ TimeOrdered(activity_log) =>
               \A k \in 1..Len(outcome.data.scores) :
                   ScoreInRange(outcome.data.scores[k])

\* a trend over two dates of a log in time order
C11_Witness ==
    /\ ProductivityDone
    /\ TimeOrdered(activity_log)
    /\ Len(outcome.data.dates) = 2
    /\ outcome.data.dates[1] < outcome.data.dates[2]

----------------------------------------------------------------------------
(* Properties of the end of a session and of its log, under Spec *)

\* C12: when stop() fails at a listener or at the camera, the case of
\* listeners that failed to start included, that stop() still writes a
\* log that holds entries to the file.
C12_FlushDespiteFailure ==
    (pcMain = "crashed" /\ activity_log # <<>>) => disk # <<>>

\* start() has returned
SessionEnded == pcMain \in {"stopped", "exited"}

\* C13: a session that has ended, by the interrupt or by the quit key,
\* with entries in its log has written the log to the file.
C13_PersistedAtEnd ==
    (SessionEnded /\ activity_log # <<>>) => disk # <<>>

\* every entry is later than the entry before it
StrictlyIncreasing(log) ==
    \A i \in 1..(Len(log) - 1) :
        TdPositive(TimeDelta(log[i + 1].timestamp, log[i].timestamp))

\* the log after the step is the log before it with one entry added at its end
OneAppended ==
    /\ Len(activity_log') = Len(activity_log) + 1
    /\ SubSeq(activity_log', 1, Len(activity_log)) = activity_log

C15_FirstEntryActive ==
    activity_log # <<>> => activity_log[1].status = "active"

\* the step of lines 143-148 of one iteration
LogStep == pcPoll = "log" /\ pcPoll' = "sleep"

\* C16: an iteration appends an entry exactly when the status it decided
\* differs from the status of the iteration before, the entry has the new
\* status, no other step changes the log, and so any two consecutive
\* entries differ in status.
C16_ChangeLogged ==
    /\ [](\A i \in 1..(Len(activity_log) - 1) :
              activity_log[i].status # activity_log[i + 1].status)
    /\ [][IF LogStep /\ current_status # last_status
          THEN /\ OneAppended
               /\ activity_log'[Len(activity_log')].status = current_status
               /\ last_status' = current_status
          ELSE activity_log' = activity_log]_vars

\* the return to active has been appended after the afk entry
C16_Witness ==
    /\ pcPoll = "sleep"
    /\ appended
    /\ Len(activity_log) >= 2
    /\ activity_log[Len(activity_log)].status = "active"
    /\ activity_log[Len(activity_log) - 1].status = "afk"

\* the step of lines 133-140 of one iteration: the status is decided
DecisionStep == pcPoll \in {"read_activity", "read_face"} /\ pcPoll' = "log"

\* the rule of C18, on the status decided by the step
AlertDue ==
    /\ current_status' = "afk"
    /\ \/ last_status = "active"
       \/ current_time - last_notification_time > AlertCooldown

\* C18: at every iteration a notification is sent, and the time of the
\* last notification set to the time of the iteration, exactly when the
\* status decided is afk and either the status before was active or more
\* than 300 s have passed since the last notification.
C18_AlertRule ==
    [][DecisionStep =>
          /\ alerted' <=> AlertDue
          /\ last_notification_time' =
                 IF AlertDue THEN current_time ELSE last_notification_time]_vars

\* a further notification inside one afk period, the cooldown over
C18_Witness ==
    /\ pcPoll = "log"
    /\ alerted
    /\ last_status = "afk"
    /\ current_status = "afk"
    /\ Len(period_alerts) = 2
    /\ period_alerts[2] = current_time
    /\ last_notification_time = current_time

\* C19: once stop() has written the log, the file holds every entry of
\* the log: no entry is appended after the write.
C19_FlushHoldsAll ==
    (pcMain \in {"saved", "stopped"} /\ activity_log # <<>>) =>
        saved_log = <<activity_log>>

\* C20: after a failure of the webcam thread (no camera, no frame, an
\* exception) and until its next sample, is_face_present is false.
C20_FailureClearsFlag ==
    cam_event \in {"open_failed", "grab_failed", "exception"} => ~is_face_present

\* where the poll thread can be after a step that moves it from pc, the
\* loop going on while is_running is true
PollSuccessors(pc, running) ==
    CASE pc = "unstarted" -> {"loop"}
      [] pc = "loop" -> IF running THEN {"read_activity"} ELSE {"done"}
      [] pc = "read_activity" -> {"read_face", "log"}
      [] pc = "read_face" -> {"log", "except"}
      [] pc = "log" -> {"sleep"}
      [] pc = "sleep" -> {"loop"}
      [] pc = "except" -> {"loop"}
      [] OTHER -> {}

\* C21: an exception raised inside an iteration, or by the notification,
\* does not end the poll loop: the notification's exception leaves the
\* iteration to go on to its log step, the iteration's exception leads by
\* the handler and the sleep back to the loop test, which starts the next
\* iteration as long as is_running is true; the thread ends only once
\* is_running is false.
C21_LoopSurvivesFailure ==
    /\ [](pcPoll = "done" => ~is_running)
    /\ [](failed = "notification" => pcPoll = "log")
    /\ [](failed = "iteration" =>
              pcPoll \in {"except", "loop", "read_activity", "done"})
    /\ [][pcPoll' # pcPoll => pcPoll' \in PollSuccessors(pcPoll, is_running)]_vars

\* an iteration has started after one that raised
C21_Witness ==
    /\ pcPoll = "read_activity"
    /\ failed = "iteration"
    /\ is_running
    /\ ticks >= 1

----------------------------------------------------------------------------
(* The leading run of afk entries, under SpecLog *)

\* C17: the breaks counted are the runs of afk entries with an active
\* entry on both sides: a run that starts the log is not counted.
C17_LeadingAwayNotCounted ==
    (outcome.op = "breaks" /\ outcome.result \in {"done", "no_breaks"}) =>
        Len(outcome.data) =
            Cardinality({j \in ClosingIndices(activity_log) :
                            RunStart(activity_log, j) > 1})

\* C22: a load that fails on a malformed file (a line without exactly two
\* fields, a timestamp that does not parse) leaves activity_log as it was
\* before the call.
C22_FailedLoadKeepsLog ==
    [][(outcome'.result = "error" /\ outcome'.err = "ValueError") =>
          activity_log' = activity_log]_vars

====
